---- MODULE Spec2Model ----
(***************************************************************************)
(* A model of artifact_extractor.py: main, ArtifactExtractor.              *)
(* extract_artifacts, export_file, _check_unique and the output tree they  *)
(* write.                                                                  *)
(*                                                                         *)
(* Representation.  A Python string is a sequence of tokens (a token is a  *)
(* TLA+ string), so that str.replace can be computed; the empty string is  *)
(* << >>.  A string that holds '/' separators is kept as the sequence of   *)
(* its '/'-separated components, i.e. as the value of s.split('/').  A     *)
(* path of the output tree is the sequence of its non-empty components.    *)
(***************************************************************************)
EXTENDS Integers, Sequences, FiniteSets, TLC

\* ------------------------------------------------------------------ bounds

\* Longest list of base path specs GetBasePathSpecs returns (Spec).
MaxSpecs == 2
\* Longest list handed to the reordering loop on its own (SpecReorder).
MaxList == 4
\* Most IOErrors raised by reads/closes during one run.
MaxIOErrors == 1

\* ----------------------------------------------------------------- strings

Str(s) == IF s = "" THEN << >> ELSE << s >>

\* The components of a '/'-separated string given as TLA+ strings.
P(q) == [i \in 1..Len(q) |-> Str(q[i])]

Last(s) == s[Len(s)]
Front(s) == SubSeq(s, 1, Len(s) - 1)
Range(s) == {s[i] : i \in 1..Len(s)}

\* a + b for two '/'-separated strings: the last component of a and the
\* first of b run together.
StrCat(a, b) == Front(a) \o << Last(a) \o b[1] >> \o Tail(b)

\* s.replace(old, new) for a one-token old.
RECURSIVE Replace(_, _, _)
Replace(s, old, new) ==
    IF s = << >> THEN << >>
    ELSE (IF Head(s) = old THEN new ELSE << Head(s) >>) \o Replace(Tail(s), old, new)

\* os.path.join(path, element) for an element without separators: joining
\* the empty string only adds a trailing separator.
PathJoin(path, element) == IF element = << >> THEN path ELSE Append(path, element)

\* os.path.dirname of a path that names a file.
Dirname(path) == Front(path)

IsPrefix(s, t) == Len(s) =< Len(t) /\ SubSeq(t, 1, Len(s)) = s

\* hashlib.md5 over the chunks written: equal data, equal digest.
MD5(data) == [hexdigest |-> data]

\* ---------------------------------------------------------------- catalogue

Artifact(src, out) == [src |-> P(src), out |-> P(out)]

_LOC_REG == <<"", "Windows", "System32", "config">>
_LOC_APPCOMPAT == <<"", "Windows", "AppCompat", "Programs">>

\* One or two representatives of each of the four artifact groups.
_SYSTEM_ARTIFACTS ==
    << Artifact(_LOC_REG \o <<"SAM">>, <<"", "Registry", "">>),
       Artifact(_LOC_APPCOMPAT \o <<"Amcache.hve">>, <<"", "MRU", "Prog", "">>) >>

_SYSTEM_ARTIFACTS_DIR ==
    << Artifact(<<"", "Windows", "Prefetch">>, <<"", "MRU", "Prog", "prefetch", "">>) >>

_USER_ARTIFACTS ==
    << Artifact(<<"", "NTUSER.DAT">>, <<"", "Registry", "">>) >>

_USER_ARTIFACTS_DIR ==
    << Artifact(<<"", "AppData", "Local", "Microsoft", "Windows", "WebCache">>,
                <<"", "MRU", "Files", "webcache", "">>) >>

ExcludedUsers == {Str("All Users"), Str("Default"), Str("Default User"),
                  Str("Default.migrated"), Str("Public")}

\* ------------------------------------------------------------- the image

None == [found |-> FALSE]

File(location, content) ==
    [found |-> TRUE, name |-> Last(P(location)), location |-> P(location),
     isdir |-> FALSE, content |-> content, subs |-> << >>]

Dir(location, content, subs) ==
    [found |-> TRUE, name |-> Last(P(location)), location |-> P(location),
     isdir |-> TRUE, content |-> content, subs |-> subs]

SAM == _LOC_REG \o <<"SAM">>
AMCACHE == _LOC_APPCOMPAT \o <<"Amcache.hve">>
PREFETCH == <<"", "Windows", "Prefetch">>
USERS == <<"", "Users">>
ALICE == USERS \o <<"alice">>
WEBCACHE == ALICE \o <<"AppData", "Local", "Microsoft", "Windows", "WebCache">>

UsersDir ==
    Dir(USERS, <<"u">>,
        << Dir(USERS \o <<"Public">>, <<"i">>, << >>),
           File(USERS \o <<"desktop.ini">>, <<"ini">>),
           Dir(ALICE, <<"i">>, << >>) >>)

\* The volumes of the image: two partitions, two shadow copies of the first
\* and a shadow copy that cannot be opened.
Volumes == {"P1", "P2", "VSS1", "VSS2", "VSS3"}

type_indicator(v) == IF v \in {"P1", "P2"} THEN "TSK_PARTITION" ELSE "VSHADOW"

store_index(v) == CASE v = "VSS1" -> 0 [] v = "VSS2" -> 1 [] v = "VSS3" -> 2 [] OTHER -> 0

Opens(v) == v # "VSS3"

\* The file entries of a volume that the catalogue can name.
VolumeEntries(v) ==
    CASE v = "P1" ->
           { File(SAM, <<"s1">>),
             Dir(PREFETCH, <<"i">>,
                 << File(PREFETCH \o <<"A.pf">>, <<"a1">>),
                    Dir(PREFETCH \o <<"sub">>, <<"i">>,
                        << File(PREFETCH \o <<"sub", "B.pf">>, <<"b1">>) >>) >>),
             UsersDir,
             File(ALICE \o <<"NTUSER.DAT">>, <<"n1">>),
             Dir(WEBCACHE, <<"i">>, << File(WEBCACHE \o <<"V01.dat">>, <<"w1">>) >>) }
      [] v = "P2" ->
           { File(SAM, <<"s1">>) }
      [] v = "VSS1" ->
           { File(SAM, <<"s1">>),
             Dir(PREFETCH, <<"i">>, << File(PREFETCH \o <<"A.pf">>, <<"a1", "a2">>) >>),
             UsersDir,
             File(ALICE \o <<"NTUSER.DAT">>, <<"n1">>) }
      [] v = "VSS2" ->
           { File(SAM, <<"s1", "s2">>),
             File(AMCACHE, <<"m1">>),
             UsersDir,
             Dir(WEBCACHE, <<"i">>, << File(WEBCACHE \o <<"V01.dat">>, <<"w1">>) >>) }
      [] OTHER -> { }

\* vsm.VSS_CREATION_TIMESTAMPS, keyed by store number (store_index + 1).
VSS_CREATION_TIMESTAMPS ==
    << <<"2017-03-01", " ", "10", ":", "15", ":", "00">>,
       <<"2017-03-08", " ", "10", ":", "15", ":", "00">>,
       <<"2017-03-15", " ", "09", ":", "30", ":", "00">> >>

BasePathSpec(v) ==
    [id |-> v, type_indicator |-> type_indicator(v), store_index |-> store_index(v)]

output_base_dir == << Str("dest") >>

\* ------------------------------------------------------------------ state

VARIABLES
    pc,               \* where main is
    return_value,     \* main's result
    exit_code,        \* the status handed to sys.exit; -1 while running
    why,              \* history: what ended the run
    base_path_specs,  \* the list extract_artifacts works on
    input_specs,      \* history: the list as GetBasePathSpecs returned it
    ri,               \* index of the reordering loop's iterator
    bi,               \* index of the current base path spec
    ai,               \* index of the current artifact of the current group
    ui,               \* index of the current sub entry of /Users
    fs,               \* output tree: path -> [content, origin, stamped]
    dirs,             \* output tree: the directories made
    _extracted,       \* location -> list of md5 digests
    calls,            \* the export_file calls of the last loop iteration
    last,             \* the last _get_file_entry: [bps, group, location, found]
    visited,          \* history: every _get_file_entry made, in order
    warnings,         \* the logging.warning calls made
    ioErrors          \* IOErrors raised by reads so far

vars == << pc, return_value, exit_code, why, base_path_specs, input_specs, ri, bi,
           ai, ui, fs, dirs, _extracted, calls, last, visited, warnings, ioErrors >>

NoError == 0 - 1
\* file_entry.GetFileObject() raises IOError, before the output is opened.
GetFileObjectError == 0 - 2
NoLookup == [bps |-> "", group |-> "none", location |-> << >>, found |-> FALSE]

\* -------------------------------------------------------------- export_file

\* _preserve_timestamps: SetFileTime on the copy at output_path.
_preserve_timestamps(files, output_path) ==
    [files EXCEPT ![output_path].stamped = TRUE]

\* os.remove
os_remove(files, output_path) ==
    [q \in (DOMAIN files) \ {output_path} |-> files[q]]

\* Mutant of _check_unique: the membership test is left out.
_check_unique_always(extracted, location, md5) ==
    IF location \in DOMAIN extracted
    THEN [unique |-> TRUE,
          extracted |-> [extracted EXCEPT ![location] = Append(@, md5)]]
    ELSE [unique |-> TRUE, extracted |-> (location :> << md5 >>) @@ extracted]

\* _check_unique: the value returned and the map it leaves.
_check_unique(extracted, location, md5) ==
    IF location \in DOMAIN extracted
    THEN IF md5 \in Range(extracted[location])
         THEN [unique |-> FALSE, extracted |-> extracted]
         ELSE [unique |-> TRUE,
               extracted |-> [extracted EXCEPT ![location] = Append(@, md5)]]
    ELSE [unique |-> TRUE, extracted |-> (location :> << md5 >>) @@ extracted]

IsDirectory(st, path) == \E d \in st.dirs : IsPrefix(path, d)

\* os.path.exists
Exists(st, path) == path \in DOMAIN st.fs \/ IsDirectory(st, path)

\* os.makedirs: fails when a component of the path is a file.
makedirs(st, path) ==
    IF \E k \in 1..Len(path) : SubSeq(path, 1, k) \in DOMAIN st.fs
    THEN [st EXCEPT !.exc = "OSError"]
    ELSE [st EXCEPT !.dirs = @ \cup {path}]

\* Lines 119-124.
MakeParent(st, output_path, recursive) ==
    LET d == IF recursive THEN output_path ELSE Dirname(output_path)
    IN  IF Exists(st, d) THEN st ELSE makedirs(st, d)

Call(entry, output_path, recursive, depth, md5, unique) ==
    [location |-> entry.location, output_path |-> output_path,
     recursive |-> recursive, depth |-> depth, md5 |-> md5, unique |-> unique]

\* The body of the try, lines 127-144.  err is NoError, GetFileObjectError,
\* or the number of chunks written before a read (or, for all of them, a
\* close) raises IOError.
Copy(st, entry, output_path, recursive, depth, err) ==
    IF err = GetFileObjectError
    THEN [st EXCEPT !.exc = "IOError", !.errs = @ + 1,
                    !.calls = Append(@, Call(entry, output_path, recursive, depth,
                                             MD5(<< >>), "none"))]
    ELSE IF IsDirectory(st, output_path)
    THEN \* open(output_path, "wb") of a directory
         [st EXCEPT !.exc = "IOError",
                    !.calls = Append(@, Call(entry, output_path, recursive, depth,
                                             MD5(<< >>), "none"))]
    ELSE LET n == IF err = NoError THEN Len(entry.content) ELSE err
             data == SubSeq(entry.content, 1, n)
             written == [content |-> data, origin |-> entry.location, stamped |-> FALSE]
             st1 == [st EXCEPT !.fs = (output_path :> written) @@ @]
         IN  IF err # NoError
             THEN [st1 EXCEPT !.exc = "IOError", !.errs = @ + 1,
                              !.calls = Append(@, Call(entry, output_path, recursive,
                                                       depth, MD5(data), "none"))]
             ELSE LET r == _check_unique(st1.extracted, entry.location, MD5(data))
                  IN  IF ~ r.unique
                      THEN [st1 EXCEPT !.extracted = r.extracted,
                                       !.fs = os_remove(@, output_path),
                                       !.calls = Append(@, Call(entry, output_path,
                                                   recursive, depth, MD5(data), "dup"))]
                      ELSE [st1 EXCEPT !.extracted = r.extracted,
                                       !.fs = _preserve_timestamps(@, output_path),
                                       !.calls = Append(@, Call(entry, output_path,
                                                   recursive, depth, MD5(data), "new"))]

\* Mutant of except_IOError: the handler is missing.
except_nothing(st) == st

\* except IOError: pass
except_IOError(st) == IF st.exc = "IOError" THEN [st EXCEPT !.exc = "none"] ELSE st

\* Mutant of SubRecursive: the caller's flag is handed down.
SubRecursiveSame(recursive) == recursive

\* The recursive argument of the call at line 150.
SubRecursive(recursive) == FALSE

\* file_entry.sub_file_entries
sub_file_entries(entry) == entry.subs

RECURSIVE export_file(_, _, _, _, _, _)
RECURSIVE ExportSubEntries(_, _, _, _, _, _, _)

\* export_file(file_entry, output_path, recursive); plan gives err per location.
export_file(st, entry, output_path, recursive, depth, plan) ==
    LET st1 == MakeParent(st, output_path, recursive)
        st2 == IF st1.exc # "none" THEN st1
               ELSE except_IOError(Copy(st1, entry, output_path, recursive, depth,
                                        plan[entry.location]))
    IN  IF st2.exc = "none" /\ recursive
        THEN ExportSubEntries(st2, sub_file_entries(entry), 1, output_path,
                              recursive, depth, plan)
        ELSE st2

\* The loop of lines 149-150, from its i-th sub entry on.
ExportSubEntries(st, subs, i, output_path, recursive, depth, plan) ==
    IF i > Len(subs) \/ st.exc # "none" THEN st
    ELSE ExportSubEntries(
             export_file(st, subs[i], PathJoin(output_path, subs[i].name),
                         SubRecursive(recursive), depth + 1, plan),
             subs, i + 1, output_path, recursive, depth, plan)

\* -------------------------------------------------------- extract_artifacts

\* _get_file_entry: the file entry at artifact_location in the volume, or None.
_get_file_entry(base_path_spec, artifact_location) ==
    LET m == {e \in VolumeEntries(base_path_spec.id) : e.location = artifact_location}
    IN  IF m = { } THEN None ELSE CHOOSE e \in m : TRUE

\* _get_output_path: os.path.join folded over artifact_output_path.split('/').
RECURSIVE JoinElements(_, _)
JoinElements(output_path, elements) ==
    IF elements = << >> THEN output_path
    ELSE JoinElements(PathJoin(output_path, Head(elements)), Tail(elements))

_get_output_path(base_dir, artifact_output_path) ==
    JoinElements(base_dir, artifact_output_path)

_get_vsc_ctime(base_path_spec) == VSS_CREATION_TIMESTAMPS[base_path_spec.store_index + 1]

\* Lines 190-194.
vsc_dir(base_path_spec) ==
    IF base_path_spec.type_indicator = "VSHADOW"
    THEN Replace(Replace(_get_vsc_ctime(base_path_spec), ":", << >>), " ", << "@" >>)
    ELSE << >>

\* Lines 202-208.
SystemOutputPath(bps, artifact) ==
    LET output_path == _get_output_path(output_base_dir, artifact.out)
    IN  IF bps.type_indicator = "VSHADOW"
        THEN PathJoin(PathJoin(output_path, vsc_dir(bps)), Last(artifact.src))
        ELSE PathJoin(output_path, Last(artifact.src))

\* Lines 214-219.
SystemDirOutputPath(bps, artifact) ==
    LET output_path == _get_output_path(output_base_dir, artifact.out)
    IN  IF bps.type_indicator = "VSHADOW"
        THEN PathJoin(output_path, vsc_dir(bps))
        ELSE output_path

\* Lines 235-243.
UserOutputPath(bps, artifact, dir_name) ==
    LET output_path == _get_output_path(output_base_dir, artifact.out)
    IN  IF bps.type_indicator = "VSHADOW"
        THEN PathJoin(PathJoin(PathJoin(PathJoin(output_path, vsc_dir(bps)),
                                        Str("Users")), dir_name), Last(artifact.src))
        ELSE PathJoin(PathJoin(PathJoin(output_path, Str("Users")), dir_name),
                      Last(artifact.src))

\* Mutant of UserDirOutputPath: the shadow copy's subfolder is left out.
UserDirOutputPathNoVsc(bps, artifact, dir_name) ==
    PathJoin(_get_output_path(output_base_dir, artifact.out), dir_name)

\* Lines 250-255.
UserDirOutputPath(bps, artifact, dir_name) ==
    LET output_path ==
            PathJoin(_get_output_path(output_base_dir, artifact.out), dir_name)
    IN  IF bps.type_indicator = "VSHADOW"
        THEN PathJoin(output_path, vsc_dir(bps))
        ELSE output_path

\* Lines 225-228: the sub entries of /Users whose artifacts are extracted.
Qualifies(user_file_entry) ==
    /\ user_file_entry.isdir
    /\ Last(user_file_entry.location) \notin ExcludedUsers

\* base_path_specs.index(x)
Index(list, x) == CHOOSE j \in 1..Len(list) :
                      list[j] = x /\ \A k \in 1..(j - 1) : list[k] # x

\* Mutant of ReorderBody: the popped element is appended, not put in front.
ReorderBodyAppend(list, i) ==
    LET x == list[i]
    IN  IF x.type_indicator # "VSHADOW"
        THEN LET j == Index(list, x)
                 popped == list[j]
                 rest == SubSeq(list, 1, j - 1) \o SubSeq(list, j + 1, Len(list))
             IN  rest \o << popped >>
        ELSE list

\* One iteration of the loop of lines 176-178, the iterator at index i.
ReorderBody(list, i) ==
    LET x == list[i]
    IN  IF x.type_indicator # "VSHADOW"
        THEN LET j == Index(list, x)
                 popped == list[j]
                 rest == SubSeq(list, 1, j - 1) \o SubSeq(list, j + 1, Len(list))
             IN  << popped >> \o rest
        ELSE list

\* Mutant of ExitCode: the test is inverted.
ExitCodeInverted(main_result) == IF main_result THEN 1 ELSE 0

\* Lines 309-313.
ExitCode(main_result) == IF ~ main_result THEN 1 ELSE 0

\* Mutant of OnMissingArtifact: a warning is logged for the artifact.
OnMissingArtifactWarn(log, bps, location) ==
    Append(log, [kind |-> "artifact", bps |-> bps.id, location |-> location])

\* What `if file_entry is None: continue` logs: nothing.
OnMissingArtifact(log, bps, location) == log

\* Line 188.
OnUnopenedBase(log, bps) ==
    Append(log, [kind |-> "base_path_spec", bps |-> bps.id, location |-> << >>])

\* ----------------------------------------------------------------- actions

\* Lists of distinct volumes, in any order, as GetBasePathSpecs may return.
SpecLists ==
    UNION { { [i \in 1..n |-> BasePathSpec(f[i])] :
                f \in {g \in [1..n -> Volumes] :
                          \A a, b \in 1..n : a # b => g[a] # g[b]} } :
            n \in 0..MaxSpecs }

Init ==
    /\ pc = "args"
    /\ return_value = TRUE
    /\ exit_code = NoError
    /\ why = "running"
    /\ base_path_specs = << >>
    /\ input_specs = << >>
    /\ ri = 1 /\ bi = 1 /\ ai = 1 /\ ui = 1
    /\ fs = << >>
    /\ dirs = {output_base_dir}
    /\ _extracted = << >>
    /\ calls = << >>
    /\ last = NoLookup
    /\ visited = << >>
    /\ warnings = << >>
    /\ ioErrors = 0

Tree == << fs, dirs, _extracted, ioErrors >>
Lookups == << calls, last, visited, warnings >>
Position == << ri, bi, ai, ui >>

\* main returns value (or an exception leaves it), and __main__ exits.
Return(value, reason) ==
    /\ pc' = "exited"
    /\ return_value' = value
    /\ exit_code' = ExitCode(value)
    /\ why' = reason

\* An exception nothing catches: the interpreter prints it and exits with 1.
Uncaught ==
    /\ pc' = "exited"
    /\ exit_code' = 1
    /\ why' = "uncaught"
    /\ UNCHANGED return_value

Goto(next) ==
    /\ pc' = next.pc /\ bi' = next.bi /\ ai' = next.ai /\ ui' = next.ui
    /\ UNCHANGED << return_value, exit_code, why >>

\* Lines 269-276.
ParseArgs ==
    /\ pc = "args"
    /\ \E source, dest \in BOOLEAN :
          IF ~ source \/ ~ dest
          THEN Return(FALSE, "args")
          ELSE pc' = "scan" /\ UNCHANGED << return_value, exit_code, why >>
    /\ UNCHANGED << base_path_specs, input_specs, Position, Tree, Lookups >>

\* Lines 285-289.
GetBasePathSpecs ==
    /\ pc = "scan"
    /\ \E list \in SpecLists :
          IF list = << >>
          THEN Return(FALSE, "nofs") /\ UNCHANGED << base_path_specs, input_specs >>
          ELSE /\ base_path_specs' = list
               /\ input_specs' = list
               /\ pc' = "dest"
               /\ UNCHANGED << return_value, exit_code, why >>
    /\ UNCHANGED << Position, Tree, Lookups >>

\* Lines 291-296: extract_artifacts is entered, or the destination is missing.
CheckDest ==
    /\ pc = "dest"
    /\ \E exists \in BOOLEAN :
          IF exists
          THEN pc' = "reorder" /\ ri' = 1 /\ UNCHANGED << return_value, exit_code, why >>
          ELSE Return(FALSE, "nodest") /\ UNCHANGED ri
    /\ UNCHANGED << base_path_specs, input_specs, bi, ai, ui, Tree, Lookups >>

\* Lines 176-178, one iteration.
ReorderStep ==
    /\ pc = "reorder"
    /\ ri =< Len(base_path_specs)
    /\ base_path_specs' = ReorderBody(base_path_specs, ri)
    /\ ri' = ri + 1
    /\ UNCHANGED << pc, return_value, exit_code, why, input_specs, bi, ai, ui,
                    Tree, Lookups >>

\* Lines 176-181: the iterator is exhausted; the second loop starts.
ReorderEnd ==
    /\ pc = "reorder"
    /\ ri > Len(base_path_specs)
    /\ pc' = "open"
    /\ bi' = 1
    /\ UNCHANGED << return_value, exit_code, why, base_path_specs, input_specs,
                    ri, ai, ui, Tree, Lookups >>

\* Lines 181-196.
OpenBasePathSpec ==
    /\ pc = "open"
    /\ bi =< Len(base_path_specs)
    /\ LET bps == base_path_specs[bi]
       IN  IF Opens(bps.id)
           THEN /\ Goto([pc |-> "system", bi |-> bi, ai |-> 1, ui |-> 1])
                /\ UNCHANGED warnings
           ELSE /\ warnings' = OnUnopenedBase(warnings, bps)
                /\ Goto([pc |-> "open", bi |-> bi + 1, ai |-> 1, ui |-> 1])
    /\ calls' = << >>
    /\ last' = NoLookup
    /\ UNCHANGED << base_path_specs, input_specs, ri, Tree, visited >>

\* Where an IOError may be raised: err per location read by this call.
RECURSIVE TreeLocations(_)
TreeLocations(entry) ==
    {entry.location} \cup
    UNION {TreeLocations(entry.subs[i]) : i \in 1..Len(entry.subs)}

ReadEntries(entry, recursive) ==
    IF recursive THEN Range(entry.subs) ELSE {entry}

Plans(entry, recursive, budget) ==
    LET read == ReadEntries(entry, recursive)
        longest == IF read = { } THEN 0
                   ELSE CHOOSE n \in {Len(e.content) : e \in read} :
                           \A e \in read : Len(e.content) =< n
    IN  { f \in [TreeLocations(entry) -> GetFileObjectError..longest] :
            /\ \A l \in TreeLocations(entry) :
                  f[l] # NoError =>
                      \E e \in read : e.location = l /\ f[l] =< Len(e.content)
            /\ Cardinality({l \in TreeLocations(entry) : f[l] # NoError}) =< budget }

\* One iteration of one of the four artifact loops: _get_file_entry, then
\* export_file of what it found, then on to position next.
ArtifactStep(bps, group, location, output_path, recursive, next) ==
    LET file_entry == _get_file_entry(bps, location)
    IN  /\ visited' = Append(visited, [bps |-> bps.id, location |-> location])
        /\ last' = [bps |-> bps.id, group |-> group, location |-> location,
                    found |-> file_entry.found]
        /\ IF ~ file_entry.found
           THEN /\ warnings' = OnMissingArtifact(warnings, bps, location)
                /\ calls' = << >>
                /\ Goto(next)
                /\ UNCHANGED Tree
           ELSE \E plan \in Plans(file_entry, recursive, MaxIOErrors - ioErrors) :
                  LET st == export_file(
                                [fs |-> fs, dirs |-> dirs, extracted |-> _extracted,
                                 calls |-> << >>, exc |-> "none", errs |-> 0],
                                file_entry, output_path, recursive, 1, plan)
                  IN  /\ fs' = st.fs
                      /\ dirs' = st.dirs
                      /\ _extracted' = st.extracted
                      /\ calls' = st.calls
                      /\ ioErrors' = ioErrors + st.errs
                      /\ UNCHANGED warnings
                      /\ IF st.exc = "none" THEN Goto(next)
                         ELSE Uncaught /\ UNCHANGED << bi, ai, ui >>
        /\ UNCHANGED << base_path_specs, input_specs, ri >>

NextBase == [pc |-> "open", bi |-> bi + 1, ai |-> 1, ui |-> 1]

\* The next sub entry of /Users, from index k on, that line 226-228 lets in.
UserFrom(users_file_entry, k) ==
    LET ok == {j \in k..Len(users_file_entry.subs) :
                  Qualifies(users_file_entry.subs[j])}
    IN  IF ok = { } THEN NextBase
        ELSE [pc |-> "user", bi |-> bi, ai |-> 1,
              ui |-> CHOOSE j \in ok : \A m \in ok : j =< m]

\* Lines 198-208.
SystemArtifact ==
    /\ pc = "system"
    /\ LET bps == base_path_specs[bi]
           artifact == _SYSTEM_ARTIFACTS[ai]
       IN  ArtifactStep(bps, "system", artifact.src,
                        SystemOutputPath(bps, artifact), FALSE,
                        IF ai < Len(_SYSTEM_ARTIFACTS)
                        THEN [pc |-> "system", bi |-> bi, ai |-> ai + 1, ui |-> 1]
                        ELSE [pc |-> "system_dir", bi |-> bi, ai |-> 1, ui |-> 1])

\* Lines 210-219.
SystemArtifactDir ==
    /\ pc = "system_dir"
    /\ LET bps == base_path_specs[bi]
           artifact == _SYSTEM_ARTIFACTS_DIR[ai]
       IN  ArtifactStep(bps, "system_dir", artifact.src,
                        SystemDirOutputPath(bps, artifact), TRUE,
                        IF ai < Len(_SYSTEM_ARTIFACTS_DIR)
                        THEN [pc |-> "system_dir", bi |-> bi, ai |-> ai + 1, ui |-> 1]
                        ELSE [pc |-> "users", bi |-> bi, ai |-> 1, ui |-> 1])

\* Lines 221-228.
UsersEntry ==
    /\ pc = "users"
    /\ LET bps == base_path_specs[bi]
           users_file_entry == _get_file_entry(bps, P(USERS))
       IN  /\ visited' = Append(visited, [bps |-> bps.id, location |-> P(USERS)])
           /\ last' = [bps |-> bps.id, group |-> "users", location |-> P(USERS),
                       found |-> users_file_entry.found]
           /\ IF ~ users_file_entry.found
              THEN Goto(NextBase)
              ELSE Goto(UserFrom(users_file_entry, 1))
    /\ calls' = << >>
    /\ UNCHANGED << base_path_specs, input_specs, ri, Tree, warnings >>

\* Lines 230-243.
UserArtifact ==
    /\ pc = "user"
    /\ LET bps == base_path_specs[bi]
           user_file_entry == _get_file_entry(bps, P(USERS)).subs[ui]
           dir_name == Last(user_file_entry.location)
           artifact == _USER_ARTIFACTS[ai]
       IN  ArtifactStep(bps, "user", StrCat(user_file_entry.location, artifact.src),
                        UserOutputPath(bps, artifact, dir_name), FALSE,
                        IF ai < Len(_USER_ARTIFACTS)
                        THEN [pc |-> "user", bi |-> bi, ai |-> ai + 1, ui |-> ui]
                        ELSE [pc |-> "user_dir", bi |-> bi, ai |-> 1, ui |-> ui])

\* Lines 245-255.
UserArtifactDir ==
    /\ pc = "user_dir"
    /\ LET bps == base_path_specs[bi]
           users_file_entry == _get_file_entry(bps, P(USERS))
           user_file_entry == users_file_entry.subs[ui]
           dir_name == Last(user_file_entry.location)
           artifact == _USER_ARTIFACTS_DIR[ai]
       IN  ArtifactStep(bps, "user_dir", StrCat(user_file_entry.location, artifact.src),
                        UserDirOutputPath(bps, artifact, dir_name), TRUE,
                        IF ai < Len(_USER_ARTIFACTS_DIR)
                        THEN [pc |-> "user_dir", bi |-> bi, ai |-> ai + 1, ui |-> ui]
                        ELSE UserFrom(users_file_entry, ui + 1))

\* Lines 298-299, 306: extract_artifacts has returned.
Completed ==
    /\ pc = "open"
    /\ bi > Len(base_path_specs)
    /\ Return(return_value, "completed")
    /\ UNCHANGED << base_path_specs, input_specs, Position, Tree, Lookups >>

InTry == {"scan", "dest", "reorder", "open", "system", "system_dir", "users",
          "user", "user_dir"}

\* Lines 301-306.
KeyboardInterrupt ==
    /\ pc \in InTry
    /\ Return(FALSE, "interrupt")
    /\ UNCHANGED << base_path_specs, input_specs, Position, Tree, Lookups >>

Next ==
    \/ ParseArgs
    \/ GetBasePathSpecs
    \/ CheckDest
    \/ ReorderStep
    \/ ReorderEnd
    \/ OpenBasePathSpec
    \/ SystemArtifact
    \/ SystemArtifactDir
    \/ UsersEntry
    \/ UserArtifact
    \/ UserArtifactDir
    \/ Completed
    \/ KeyboardInterrupt

Spec == Init /\ [][Next]_vars

\* ------------------------------------------- the reordering loop on its own

\* Lists of distinct base path specs of either kind, in any order.
ReorderLists ==
    UNION { { [i \in 1..n |-> [id |-> ToString(i), type_indicator |-> t[i],
                               store_index |-> 0]] :
                t \in [1..n -> {"VSHADOW", "TSK_PARTITION"}] } :
            n \in 0..MaxList }

InitReorder ==
    /\ pc = "reorder"
    /\ return_value = TRUE
    /\ exit_code = NoError
    /\ why = "running"
    /\ base_path_specs \in ReorderLists
    /\ input_specs = base_path_specs
    /\ ri = 1 /\ bi = 1 /\ ai = 1 /\ ui = 1
    /\ fs = << >>
    /\ dirs = {output_base_dir}
    /\ _extracted = << >>
    /\ calls = << >>
    /\ last = NoLookup
    /\ visited = << >>
    /\ warnings = << >>
    /\ ioErrors = 0

NextReorder ==
    \/ ReorderStep
    \/ ReorderEnd

\* The loop is straight-line code: it keeps running until it is done.
SpecReorder == InitReorder /\ [][NextReorder]_vars /\ WF_vars(NextReorder)

\* ------------------------------------------------------------------ claims

Finished == pc = "exited" /\ why = "completed"

ArtifactGroups == {"system", "system_dir", "user", "user_dir"}
DirGroups == {"system_dir", "user_dir"}

\* The file entry the last lookup found.
LastEntry == _get_file_entry(BasePathSpec(last.bps), last.location)

\* C1: the output tree never holds two copies with the same content hash
\* that were exported from the same original location.
C1_NoTwoCopies ==
    \A p, q \in DOMAIN fs :
        p # q => ~ (/\ fs[p].origin = fs[q].origin
                    /\ MD5(fs[p].content) = MD5(fs[q].content))

\* C2: the exit code is 1 exactly when arguments are missing, no base path
\* spec is found, the destination is missing or the user interrupts, and 0 in
\* every other run that reaches the end of main; in the first three cases
\* extract_artifacts was never entered and the output tree is untouched.
C2_ExitCodes ==
    (pc = "exited" /\ why # "uncaught") =>
        /\ exit_code \in {0, 1}
        /\ exit_code = 1 <=> why \in {"args", "nofs", "nodest", "interrupt"}
        /\ exit_code = 0 <=> why = "completed"
        /\ why \in {"args", "nofs", "nodest"} =>
              /\ fs = << >> /\ dirs = {output_base_dir} /\ _extracted = << >>
              /\ visited = << >> /\ warnings = << >> /\ ri = 1

C2_Witness ==
    /\ pc = "exited" /\ why = "interrupt" /\ exit_code = 1
    /\ fs # << >>

\* What extract_artifacts looks up for one base path spec, in order.
RECURSIVE Flatten(_)
Flatten(ss) == IF ss = << >> THEN << >> ELSE Head(ss) \o Flatten(Tail(ss))

Sources(bps, prefix, artifacts) ==
    [i \in 1..Len(artifacts) |->
        [bps |-> bps.id,
         location |-> IF prefix = << >> THEN artifacts[i].src
                      ELSE StrCat(prefix, artifacts[i].src)]]

ExpectedLookups(bps) ==
    IF ~ Opens(bps.id) THEN << >>
    ELSE LET users == _get_file_entry(bps, P(USERS))
         IN  Sources(bps, << >>, _SYSTEM_ARTIFACTS)
             \o Sources(bps, << >>, _SYSTEM_ARTIFACTS_DIR)
             \o << [bps |-> bps.id, location |-> P(USERS)] >>
             \o (IF ~ users.found THEN << >>
                 ELSE Flatten([i \in 1..Len(users.subs) |->
                         IF Qualifies(users.subs[i])
                         THEN Sources(bps, users.subs[i].location, _USER_ARTIFACTS)
                              \o Sources(bps, users.subs[i].location,
                                         _USER_ARTIFACTS_DIR)
                         ELSE << >>]))

ExpectedVisits(list) == Flatten([i \in 1..Len(list) |-> ExpectedLookups(list[i])])

\* C3: an IOError raised by a copy never leaves export_file; the sub entries
\* of a directory artifact are exported whatever fails, every artifact of
\* every base path spec is looked up, and the run ends with exit code 0.
C3_IOErrorSwallowed ==
    /\ why # "uncaught"
    /\ (last.group \in DirGroups /\ last.found) =>
           Len(calls) = 1 + Len(LastEntry.subs)
    /\ (pc = "exited" /\ why \notin {"args", "nofs", "nodest", "interrupt"}) =>
           /\ exit_code = 0
           /\ visited = ExpectedVisits(base_path_specs)

C3_Witness ==
    /\ Finished /\ exit_code = 0 /\ ioErrors > 0
    /\ Len(base_path_specs) = MaxSpecs
    /\ \E p \in DOMAIN fs : ~ fs[p].stamped

\* C4 as amended: an artifact that does not resolve is skipped silently, with
\* no export_file call and no warning; every warning logged is about a base
\* path spec that could not be opened, one per such base path spec.
C4_SkippedSilently ==
    /\ (last.group # "none" /\ ~ last.found) => calls = << >>
    /\ \A i \in 1..Len(warnings) :
           /\ warnings[i].kind = "base_path_spec"
           /\ ~ Opens(warnings[i].bps)
    /\ Len(warnings) =< Len(base_path_specs)
    /\ \A i, j \in 1..Len(warnings) : i # j => warnings[i].bps # warnings[j].bps

C4_Witness ==
    /\ last.group \in ArtifactGroups /\ ~ last.found
    /\ calls = << >> /\ warnings = << >>

\* C4 as claimed: an artifact that does not resolve is skipped, with no
\* export_file call, and a warning about it is logged.
C4_SkippedWithWarning ==
    (last.group \in ArtifactGroups /\ ~ last.found) =>
        /\ calls = << >>
        /\ \E i \in 1..Len(warnings) :
               warnings[i].bps = last.bps /\ warnings[i].location = last.location

\* The subfolder of a snapshot: its creation timestamp without the colons
\* and with '@' for every space.
SnapshotFolder(bps) ==
    LET ts == VSS_CREATION_TIMESTAMPS[bps.store_index + 1]
        kept == SelectSeq(ts, LAMBDA t : t # ":")
    IN  [i \in 1..Len(kept) |-> IF kept[i] = " " THEN "@" ELSE kept[i]]

ShadowFolders ==
    {SnapshotFolder(BasePathSpec(v)) : v \in {w \in Volumes : type_indicator(w) = "VSHADOW"}}

\* C5: every output path handed to export_file for a VSHADOW base path spec
\* has that snapshot's subfolder as a component, in all four groups; an output
\* path for any other base path spec has no snapshot's subfolder in it.
C5_ShadowSubfolder ==
    \A i \in 1..Len(calls) :
        IF BasePathSpec(last.bps).type_indicator = "VSHADOW"
        THEN SnapshotFolder(BasePathSpec(last.bps)) \in Range(calls[i].output_path)
        ELSE Range(calls[i].output_path) \cap ShadowFolders = { }

C5_Witness ==
    /\ last.group = "user_dir" /\ last.found
    /\ BasePathSpec(last.bps).type_indicator = "VSHADOW"
    /\ Len(calls) = 2

\* C6: when extract_artifacts has finished, every copy in the output tree
\* has had its timestamps restored after its last write.
C6_AllStamped ==
    Finished => \A p \in DOMAIN fs : fs[p].stamped

IsPermutation(s, t) ==
    /\ Len(s) = Len(t)
    /\ \E f \in [1..Len(s) -> 1..Len(s)] :
          /\ \A a, b \in 1..Len(s) : a # b => f[a] # f[b]
          /\ \A a \in 1..Len(s) : t[f[a]] = s[a]

NonShadowFirst(list) ==
    \A a, b \in 1..Len(list) :
        (list[a].type_indicator = "VSHADOW" /\ list[b].type_indicator # "VSHADOW")
            => b < a

\* C7: the reordering loop terminates, and leaves a permutation of its input
\* in which every non-VSHADOW base path spec precedes every VSHADOW one.
C7_Reordered ==
    /\ [](pc = "open" => /\ IsPermutation(input_specs, base_path_specs)
                         /\ NonShadowFirst(base_path_specs))
    /\ <>(pc = "open")

C7_Witness ==
    /\ pc = "open"
    /\ Len(input_specs) = MaxList
    /\ input_specs[1].type_indicator = "VSHADOW"
    /\ input_specs[2].type_indicator # "VSHADOW"
    /\ input_specs[3].type_indicator = "VSHADOW"
    /\ input_specs[4].type_indicator # "VSHADOW"
    /\ base_path_specs # input_specs

NoDuplicates(extracted) ==
    \A l \in DOMAIN extracted :
        \A i, j \in 1..Len(extracted[l]) : i # j => extracted[l][i] # extracted[l][j]

\* The digests the calls cs recorded for location l, in order.
RECURSIVE Recorded(_, _)
Recorded(cs, l) ==
    IF cs = << >> THEN << >>
    ELSE (IF Head(cs).location = l /\ Head(cs).unique = "new"
          THEN << Head(cs).md5 >> ELSE << >>) \o Recorded(Tail(cs), l)

\* Each _check_unique of the calls cs answered "new" exactly when its digest
\* was not yet recorded for its location, and the map grew by just those.
ChecksAnswered(cs, before, after) ==
    /\ \A i \in 1..Len(cs) :
          cs[i].unique # "none" =>
              LET seen == \/ /\ cs[i].location \in DOMAIN before
                             /\ cs[i].md5 \in Range(before[cs[i].location])
                          \/ \E j \in 1..(i - 1) :
                                /\ cs[j].location = cs[i].location
                                /\ cs[j].unique = "new"
                                /\ cs[j].md5 = cs[i].md5
              IN  cs[i].unique = IF seen THEN "dup" ELSE "new"
    /\ DOMAIN after =
          DOMAIN before \cup {cs[i].location : i \in {k \in 1..Len(cs) : cs[k].unique = "new"}}
    /\ \A l \in DOMAIN after :
          after[l] = (IF l \in DOMAIN before THEN before[l] ELSE << >>) \o Recorded(cs, l)

\* C8: _check_unique returns True exactly when the digest is new for the
\* location, and then records it; otherwise the map is unchanged.  No location
\* ever holds a digest twice, entries are only added, and a call leaves the
\* other locations alone.
C8_CheckUnique ==
    [][ /\ NoDuplicates(_extracted')
        /\ \A l \in DOMAIN _extracted :
              l \in DOMAIN _extracted' /\ IsPrefix(_extracted[l], _extracted'[l])
        /\ IF visited' # visited
           THEN ChecksAnswered(calls', _extracted, _extracted')
           ELSE _extracted' = _extracted ]_vars

C8_Witness ==
    /\ \E i \in 1..Len(calls) : calls[i].unique = "dup"
    /\ \E l \in DOMAIN _extracted : Len(_extracted[l]) = 2

\* C9: when extract_artifacts has finished, every digest recorded for a
\* location is the digest of a file in the output tree.
C9_NoContentLost ==
    Finished =>
        \A l \in DOMAIN _extracted :
            \A h \in Range(_extracted[l]) :
                \E p \in DOMAIN fs : MD5(fs[p].content) = h

\* C10: a recursive export_file exports each direct sub entry exactly once,
\* in order, non-recursively and under output_path joined with its name; no
\* call is nested more than two deep.
C10_OneLevel ==
    /\ \A i \in 1..Len(calls) : calls[i].depth =< 2
    /\ (last.group \in DirGroups /\ last.found) =>
           LET subs == LastEntry.subs
           IN  /\ Len(calls) = 1 + Len(subs)
               /\ calls[1].recursive /\ calls[1].depth = 1
               /\ calls[1].location = last.location
               /\ \A i \in 1..Len(subs) :
                     /\ calls[i + 1].location = subs[i].location
                     /\ ~ calls[i + 1].recursive
                     /\ calls[i + 1].depth = 2
                     /\ calls[i + 1].output_path =
                            PathJoin(calls[1].output_path, subs[i].name)

C10_Witness ==
    /\ last.group \in DirGroups /\ last.found
    /\ Len(calls) = 3
    /\ \E i \in 1..Len(LastEntry.subs) : LastEntry.subs[i].subs # << >>
    /\ calls[3].unique = "new"

====
